---- MODULE Spec2Model ----
(***************************************************************************)
(* Model of src/executor.py: the MCPExecutor facade (connect, list_tools,  *)
(* describe_tool, call_tool, close) driven by one sequential caller.       *)
(* The mcp library (stdio_client, ClientSession) is external: each of its  *)
(* awaits either returns or raises, chosen nondeterministically.           *)
(***************************************************************************)
EXTENDS Integers, Sequences, FiniteSets, TLC

\* ---- bounds ----
MaxSessions == 2
MaxListLen == 2

\* ---- values ----
None == 0

NoneValue == [py |-> "None"]

Names == {"a", "A", "b"}

ToolNames == Names \cup {"c"}

\* the tools a server may advertise: two entries share the name "a", one
\* differs from it only by case
Tool == {[name |-> "a", description |-> "d1", inputSchema |-> "s1"],
         [name |-> "a", description |-> "d2", inputSchema |-> "s2"],
         [name |-> "A", description |-> "d1", inputSchema |-> "s2"],
         [name |-> "b", description |-> "d2", inputSchema |-> "s1"]}

Listings == UNION {[1..n -> Tool] : n \in 0..MaxListLen}

Contents == {<<"pong">>, <<"boom">>}

CallResponses == [isError : BOOLEAN, content : Contents]

CallNames == {"a", "c"}

\* the ways an awaited library call can end (TRUE: returns, FALSE: raises);
\* a call that is not reached has the single outcome TRUE
Outcomes(reached) == IF reached THEN BOOLEAN ELSE {TRUE}

Operations == {"list_tools", "describe_tool", "call_tool"}

Requests == {"list_tools", "call_tool"}

\* the launch specification the executor is built with (command, args, env;
\* the code only reads it, in connect)
Configs == {[command |-> "echo-server", args |-> <<>>, env |-> "inherit"]}

\* main() is not running: the executor is used as a library object
MainOff == [pc |-> "off"]

\* no concurrent tasks: one caller, one operation at a time
TasksOff == <<>>

VARIABLES session, stdio_transport, sessions, serverTools, last,
          server_config, main, tasks

vars == <<session, stdio_transport, sessions, serverTools, last,
          server_config, main, tasks>>

\* one library call made by a handler: what, on which session, how it ended,
\* and the state of that session when the call was made
Ev(ev, sid, ok) ==
  [ev |-> ev, sid |-> sid, ok |-> ok,
   initialized |-> IF sid \in 1..Len(sessions) THEN sessions[sid].initialized ELSE FALSE,
   closed |-> IF sid \in 1..Len(sessions) THEN sessions[sid].closed ELSE FALSE]

\* the facade's lifecycle state as seen by a caller
ExecState ==
  IF session = None THEN "unconnected"
  ELSE IF sessions[session].closed THEN "closed"
  ELSE IF sessions[session].initialized THEN "ready"
  ELSE "poisoned"

InitEager ==
  /\ session = 1
  /\ stdio_transport = 1
  /\ sessions = <<[initialized |-> TRUE, closed |-> FALSE]>>
  /\ serverTools \in Listings
  /\ server_config \in Configs
  /\ main = MainOff
  /\ tasks = TasksOff
  /\ last = [op |-> "init", again |-> FALSE, pre |-> "unconnected", events |-> <<>>,
             outcome |-> "returned", arg |-> "", response |-> NoneValue,
             result |-> NoneValue]

\* MCPExecutor.__init__: the configuration is kept, nothing is spawned
Init ==
  /\ session = None
  /\ stdio_transport = None
  /\ sessions = <<>>
  /\ serverTools \in Listings
  /\ server_config \in Configs
  /\ main = MainOff
  /\ tasks = TasksOff
  /\ last = [op |-> "init", again |-> FALSE, pre |-> "unconnected", events |-> <<>>,
             outcome |-> "returned", arg |-> "", response |-> NoneValue,
             result |-> NoneValue]

connectKeepsFailedSpawn(spawnOk, initOk) ==
  IF ~spawnOk
  THEN [session |-> session, stdio_transport |-> Len(sessions) + 1, sessions |-> sessions,
        events |-> <<Ev("spawn", None, FALSE)>>, raised |-> TRUE]
  ELSE LET sid == Len(sessions) + 1 IN
       [session |-> sid, stdio_transport |-> sid,
        sessions |-> Append(sessions, [initialized |-> initOk, closed |-> FALSE]),
        events |-> <<[ev |-> "spawn", sid |-> sid, ok |-> TRUE,
                      initialized |-> FALSE, closed |-> FALSE],
                     [ev |-> "initialize", sid |-> sid, ok |-> initOk,
                      initialized |-> FALSE, closed |-> FALSE]>>,
        raised |-> ~initOk]

\* MCPExecutor.connect: spawn, keep the transport, wrap it in a session,
\* then initialize. The session is assigned before initialize is awaited.
connect(spawnOk, initOk) ==
  IF ~spawnOk
  THEN [session |-> session, stdio_transport |-> stdio_transport, sessions |-> sessions,
        events |-> <<Ev("spawn", None, FALSE)>>, raised |-> TRUE]
  ELSE LET sid == Len(sessions) + 1 IN
       [session |-> sid, stdio_transport |-> sid,
        sessions |-> Append(sessions, [initialized |-> initOk, closed |-> FALSE]),
        events |-> <<[ev |-> "spawn", sid |-> sid, ok |-> TRUE,
                      initialized |-> FALSE, closed |-> FALSE],
                     [ev |-> "initialize", sid |-> sid, ok |-> initOk,
                      initialized |-> FALSE, closed |-> FALSE]>>,
        raised |-> ~initOk]

AlwaysConnect(s) == TRUE

\* `if not self.session`
NeedsConnect(s) == s = None

\* the guard shared by list_tools, describe_tool and call_tool
LazyConnect(spawnOk, initOk) ==
  IF NeedsConnect(session)
  THEN connect(spawnOk, initOk)
  ELSE [session |-> session, stdio_transport |-> stdio_transport, sessions |-> sessions,
        events |-> <<>>, raised |-> FALSE]

CanSpawn == Len(sessions) < MaxSessions

Lower(s) == IF s = "A" THEN "a" ELSE s

NameEqNoCase(x, y) == Lower(x) = Lower(y)

\* `tool.name == tool_name`
NameEq(x, y) == x = y

RECURSIVE Scan(_, _, _)
\* the for-loop of describe_tool from index i on
Scan(tools, tool_name, i) ==
  IF i > Len(tools) THEN NoneValue
  ELSE IF NameEq(tools[i].name, tool_name)
       THEN [name |-> tools[i].name, description |-> tools[i].description,
             inputSchema |-> tools[i].inputSchema]
       ELSE Scan(tools, tool_name, i + 1)

ListingViewWithSchema(tools) == tools

\* the list comprehension of list_tools
ListingView(tools) ==
  [i \in 1..Len(tools) |-> [name |-> tools[i].name, description |-> tools[i].description]]

ClosePropagates(teardownOk) == IF teardownOk THEN "returned" ELSE "raised"

\* try: await __aexit__ / except: pass
CloseOutcome(teardownOk) == "returned"

Record(op, events, outcome, arg, response, result) ==
  [op |-> op, again |-> (op = "close" /\ last.op = "close"), pre |-> ExecState, events |-> events,
   outcome |-> outcome, arg |-> arg, response |-> response, result |-> result]

Connect ==
  /\ CanSpawn
  /\ \E spawnOk \in BOOLEAN : \E initOk \in Outcomes(spawnOk) :
       LET c == connect(spawnOk, initOk) IN
       /\ session' = c.session
       /\ stdio_transport' = c.stdio_transport
       /\ sessions' = c.sessions
       /\ last' = Record("connect", c.events, IF c.raised THEN "raised" ELSE "returned",
                         "", NoneValue, NoneValue)
  /\ UNCHANGED <<serverTools, server_config>>

ListTools ==
  /\ NeedsConnect(session) => CanSpawn
  /\ \E spawnOk \in Outcomes(NeedsConnect(session)) : \E initOk \in Outcomes(NeedsConnect(session) /\ spawnOk) :
     \E reqOk \in Outcomes(LazyConnect(spawnOk, initOk).raised = FALSE) :
       LET c == LazyConnect(spawnOk, initOk) IN
       /\ session' = c.session
       /\ stdio_transport' = c.stdio_transport
       /\ sessions' = c.sessions
       /\ last' =
            IF c.raised
            THEN Record("list_tools", c.events, "raised", "", NoneValue, NoneValue)
            ELSE LET evs == c.events \o
                            <<[ev |-> "list_tools", sid |-> c.session, ok |-> reqOk,
                               initialized |-> c.sessions[c.session].initialized,
                               closed |-> c.sessions[c.session].closed]>> IN
                 IF ~reqOk
                 THEN Record("list_tools", evs, "raised", "", NoneValue, NoneValue)
                 ELSE Record("list_tools", evs, "returned", "", serverTools,
                             ListingView(serverTools))
  /\ UNCHANGED <<serverTools, server_config>>

DescribeTool ==
  /\ NeedsConnect(session) => CanSpawn
  /\ \E spawnOk \in Outcomes(NeedsConnect(session)) : \E initOk \in Outcomes(NeedsConnect(session) /\ spawnOk) :
     \E reqOk \in Outcomes(LazyConnect(spawnOk, initOk).raised = FALSE) : \E tool_name \in ToolNames :
       LET c == LazyConnect(spawnOk, initOk) IN
       /\ session' = c.session
       /\ stdio_transport' = c.stdio_transport
       /\ sessions' = c.sessions
       /\ last' =
            IF c.raised
            THEN Record("describe_tool", c.events, "raised", tool_name, NoneValue, NoneValue)
            ELSE LET evs == c.events \o
                            <<[ev |-> "list_tools", sid |-> c.session, ok |-> reqOk,
                               initialized |-> c.sessions[c.session].initialized,
                               closed |-> c.sessions[c.session].closed]>> IN
                 IF ~reqOk
                 THEN Record("describe_tool", evs, "raised", tool_name, NoneValue, NoneValue)
                 ELSE Record("describe_tool", evs, "returned", tool_name, serverTools,
                             Scan(serverTools, tool_name, 1))
  /\ UNCHANGED <<serverTools, server_config>>

CallTool ==
  /\ NeedsConnect(session) => CanSpawn
  /\ \E spawnOk \in Outcomes(NeedsConnect(session)) : \E initOk \in Outcomes(NeedsConnect(session) /\ spawnOk) :
     \E reqOk \in Outcomes(LazyConnect(spawnOk, initOk).raised = FALSE) : \E tool_name \in CallNames :
     \E response \in IF reqOk /\ ~LazyConnect(spawnOk, initOk).raised THEN CallResponses ELSE {NoneValue} :
       LET c == LazyConnect(spawnOk, initOk) IN
       /\ session' = c.session
       /\ stdio_transport' = c.stdio_transport
       /\ sessions' = c.sessions
       /\ last' =
            IF c.raised
            THEN Record("call_tool", c.events, "raised", tool_name, NoneValue, NoneValue)
            ELSE LET evs == c.events \o
                            <<[ev |-> "call_tool", sid |-> c.session, ok |-> reqOk,
                               initialized |-> c.sessions[c.session].initialized,
                               closed |-> c.sessions[c.session].closed]>> IN
                 IF ~reqOk
                 THEN Record("call_tool", evs, "raised", tool_name, NoneValue, NoneValue)
                 ELSE Record("call_tool", evs, "returned", tool_name, response,
                             response.content)
  /\ UNCHANGED <<serverTools, server_config>>

Close ==
  /\ IF session # None
     THEN \E teardownOk \in BOOLEAN :
            /\ sessions' = IF teardownOk
                           THEN [sessions EXCEPT ![session].closed = TRUE]
                           ELSE sessions
            /\ last' = Record("close", <<Ev("aexit", session, teardownOk)>>,
                              CloseOutcome(teardownOk), "", NoneValue, NoneValue)
     ELSE /\ sessions' = sessions
          /\ last' = Record("close", <<>>, "returned", "", NoneValue, NoneValue)
  /\ UNCHANGED <<session, stdio_transport, serverTools, server_config>>

\* the executor used by one sequential caller
Next ==
  \/ Connect /\ UNCHANGED <<main, tasks>>
  \/ ListTools /\ UNCHANGED <<main, tasks>>
  \/ DescribeTool /\ UNCHANGED <<main, tasks>>
  \/ CallTool /\ UNCHANGED <<main, tasks>>
  \/ Close /\ UNCHANGED <<main, tasks>>

Spec == Init /\ [][Next]_vars

\* ---- helpers for the properties ----
\* how many library calls of one kind the last operation made
Count(kind) == Cardinality({i \in DOMAIN last.events : last.events[i].ev = kind})

RequestIdx == {i \in DOMAIN last.events : last.events[i].ev \in Requests}

\* indexes of the listing entries whose name is exactly the argument
Matches == {i \in DOMAIN last.response : last.response[i].name = last.arg}

FirstMatch == CHOOSE i \in Matches : \A j \in Matches : i <= j

\* C1: an operation (list_tools, describe_tool, call_tool) invoked while the
\* executor is unconnected (no session) makes exactly one handshake, a spawn
\* followed by one initialize on the spawned transport, and sends its request
\* only after that handshake; an operation invoked while the session is Ready
\* makes no spawn and no initialize.
C1_LazyConnectIdempotence ==
  last.op \in Operations =>
    /\ last.pre = "unconnected" =>
         /\ Count("spawn") = 1
         /\ last.events[1].ev = "spawn"
         /\ Count("initialize") = (IF last.events[1].ok THEN 1 ELSE 0)
         /\ \A i \in RequestIdx :
              /\ i = 3
              /\ last.events[2].ev = "initialize"
              /\ last.events[2].ok
              /\ last.events[2].sid = last.events[3].sid
    /\ last.pre = "ready" => (Count("spawn") = 0 /\ Count("initialize") = 0)

C1_Witness ==
  /\ last.op \in Operations
  /\ last.pre = "unconnected"
  /\ Len(last.events) = 3
  /\ last.outcome = "returned"

\* C2: every list_tools or call_tool request is sent on a session whose
\* initialize has completed successfully.
C2_RequestOnlyAfterHandshake ==
  \A i \in RequestIdx : last.events[i].initialized

\* C3: when initialize fails inside connect the executor keeps no session
\* (it is unconnected again), and an operation started after a failed
\* handshake begins with a fresh spawn.
C3_HandshakeFailureReturnsToUnconnected ==
  /\ (\E i \in DOMAIN last.events :
        last.events[i].ev = "initialize" /\ ~last.events[i].ok) => session = None
  /\ (last.op \in Operations /\ last.pre = "poisoned") =>
        (last.events # <<>> /\ last.events[1].ev = "spawn")

\* C4: connect() called while a Ready session exists does nothing: no spawn,
\* no new session, no initialize.
C4_ConnectIdempotent ==
  (last.op = "connect" /\ last.pre = "ready") => last.events = <<>>

\* C5: at most one session created by the executor has not been torn down.
C5_AtMostOneSessionAlive ==
  Cardinality({i \in DOMAIN sessions : ~sessions[i].closed}) <= 1

\* C6: no request is sent on a session that close() has torn down.
C6_ClosedIsTerminal ==
  \A i \in RequestIdx : ~last.events[i].closed

\* C7: close() completes normally whatever the state of the executor and
\* whatever the outcome of the session teardown.
C7_CloseNeverRaises ==
  last.op = "close" => last.outcome = "returned"

C7_Witness ==
  /\ last.op = "close"
  /\ last.again
  /\ last.events # <<>>
  /\ ~last.events[1].ok

\* C8: a call_tool response that reports the tool itself failed is never
\* handed back as a normal result.
C8_ToolFailureIsDistinctOutcome ==
  ~(last.op = "call_tool" /\ last.outcome = "returned" /\ last.response.isError)

\* C9: describe_tool sends at most one list_tools request and, when that
\* request returns, exactly one; it then returns the full descriptor of the
\* first entry whose name equals the argument exactly, or None when there is
\* no such entry; it raises only when a library call raised.
C9_DescribeCorrectness ==
  last.op = "describe_tool" =>
    /\ Count("list_tools") <= 1
    /\ Count("call_tool") = 0
    /\ last.outcome = "raised" => (\E i \in DOMAIN last.events : ~last.events[i].ok)
    /\ last.outcome = "returned" =>
         /\ Count("list_tools") = 1
         /\ IF Matches = {}
            THEN last.result = NoneValue
            ELSE /\ last.result # NoneValue
                 /\ last.result.name = last.arg
                 /\ last.result.description = last.response[FirstMatch].description
                 /\ last.result.inputSchema = last.response[FirstMatch].inputSchema

C9_Witness ==
  /\ last.op = "describe_tool"
  /\ last.outcome = "returned"
  /\ last.arg = "a"
  /\ Len(last.response) = 2
  /\ last.response[1].name = "A"
  /\ last.response[2].name = "a"
  /\ last.result # NoneValue

\* C10: list_tools returns one entry per tool of the response, in the order
\* received, each with the tool's name and description and nothing else.
C10_ListingPreserved ==
  (last.op = "list_tools" /\ last.outcome = "returned") =>
    /\ Len(last.result) = Len(last.response)
    /\ \A i \in DOMAIN last.response :
         /\ DOMAIN last.result[i] = {"name", "description"}
         /\ last.result[i].name = last.response[i].name
         /\ last.result[i].description = last.response[i].description

C10_Witness ==
  /\ last.op = "list_tools"
  /\ last.outcome = "returned"
  /\ Len(last.response) = 2
  /\ last.response[1].name = "b"
  /\ last.response[2].name = "a"
  /\ Len(last.result) = 2

\* C12: construction leaves the executor without session or transport and
\* spawns nothing; close() makes no spawn and no initialize and creates no
\* session; a session (and its transport) comes into being only inside
\* connect(), list_tools, describe_tool or call_tool.
C12_ConnectionIsLazy ==
  /\ [](/\ last.op = "init" =>
             (session = None /\ stdio_transport = None /\ sessions = <<>>)
        /\ last.op \in {"init", "close"} =>
             (Count("spawn") = 0 /\ Count("initialize") = 0))
  /\ [][/\ last'.op = "close" => Len(sessions') = Len(sessions)
        /\ Len(sessions') # Len(sessions) =>
             last'.op \in Operations \cup {"connect"}]_vars

C12_Witness ==
  /\ last.op = "close"
  /\ last.pre = "unconnected"
  /\ sessions = <<>>
  /\ stdio_transport = None

\* the last operation stopped at a spawn that raised
SpawnFailed(l) == l.events # <<>> /\ l.events[1].ev = "spawn" /\ ~l.events[1].ok

\* C16: when the spawn inside connect() raises, the operation raises, makes
\* no further library call (no second spawn, no initialize, no request) and
\* leaves session, stdio_transport and the sessions as they were, unset when
\* the spawn was made for list_tools, describe_tool or call_tool; the next
\* such operation begins with a spawn again.
C16_SpawnFailurePropagates ==
  [][/\ SpawnFailed(last') =>
          /\ last'.outcome = "raised"
          /\ Len(last'.events) = 1
          /\ session' = session
          /\ stdio_transport' = stdio_transport
          /\ sessions' = sessions
          /\ last'.op \in Operations => (session' = None /\ stdio_transport' = None)
     /\ (SpawnFailed(last) /\ last.op \in Operations /\ last'.op \in Operations) =>
          (last'.events # <<>> /\ last'.events[1].ev = "spawn")]_vars

C16_Witness ==
  /\ last.op \in Operations
  /\ SpawnFailed(last)
  /\ last.outcome = "raised"
  /\ session = None
  /\ stdio_transport = None

\* close() releases nothing but the current session (line 91); the transport
\* of a session is counted as released once that session was torn down
TransportReleased(i) == sessions[i].closed

\* C19: after a close() that returned on an executor that had connected
\* (taken here in the most favourable case, the teardown having succeeded),
\* every transport spawned by the executor's connect() calls is released.
C19_CloseReleasesEveryTransport ==
  (last.op = "close" /\ last.outcome = "returned" /\
   last.events # <<>> /\ last.events[1].ok) =>
     \A i \in DOMAIN sessions : TransportReleased(i)

\* C20: list_tools, describe_tool and call_tool started with a session set,
\* and close() in every state, leave session, stdio_transport and
\* server_config as they were; session or stdio_transport change only in a
\* step whose connect() spawned; server_config never changes.
C20_Frame ==
  [][/\ ((last'.op \in Operations /\ session # None) \/ last'.op = "close") =>
          /\ session' = session
          /\ stdio_transport' = stdio_transport
          /\ server_config' = server_config
     /\ (session' # session \/ stdio_transport' # stdio_transport) =>
          /\ last'.op \in Operations \cup {"connect"}
          /\ last'.events # <<>>
          /\ last'.events[1].ev = "spawn"
          /\ last'.events[1].ok
     /\ server_config' = server_config]_vars

C20_Witness ==
  /\ last.op = "call_tool"
  /\ last.pre = "ready"
  /\ last.outcome = "returned"
  /\ session = 1
  /\ stdio_transport = 1

\* ---- main(): one command-line invocation ----

\* an option that was not given on the command line (argparse default None)
ArgNone == "<None>"

\* values of --describe: absent, the empty string, a listed or unlisted name
DescribeArgs == {ArgNone, "", "a", "c"}

\* values of --call: absent, the empty string, text that is not JSON, an
\* object without "tool", and well-formed calls of tool "a" and tool "c"
CallArgs == {ArgNone, "", "{bad", "{}", "{tool:a}", "{tool:c}"}

\* the configuration file: absent, present but not JSON, present and loaded
ConfigFiles == {"missing", "unparsable", "ok"}

\* Python truth value of an optional string argument
Truthy(x) == x # ArgNone /\ x # ""

\* json.loads(args.call) followed by call_data["tool"]
ParseCall(text) ==
  IF text = "{bad" THEN [ok |-> FALSE, error |-> "JSONDecodeError", tool |-> ""]
  ELSE IF text = "{}" THEN [ok |-> FALSE, error |-> "KeyError", tool |-> ""]
  ELSE IF text = "{tool:a}" THEN [ok |-> TRUE, error |-> "", tool |-> "a"]
  ELSE [ok |-> TRUE, error |-> "", tool |-> "c"]

SelectedDefaultList(m) ==
  IF m.list THEN "list"
  ELSE IF Truthy(m.describe) THEN "describe"
  ELSE IF Truthy(m.call) THEN "call"
  ELSE "list"

\* the if/elif chain of the try block
Selected(m) ==
  IF m.list THEN "list"
  ELSE IF Truthy(m.describe) THEN "describe"
  ELSE IF Truthy(m.call) THEN "call"
  ELSE "none"

ExitStatusNotFoundOk(how) == IF how \in {"fallthrough", "not_found"} THEN 0 ELSE 1

\* the process status for each way main() ends: falling off the end of main,
\* sys.exit(1) at the four places, or an exception nothing catches
ExitStatus(how) == IF how = "fallthrough" THEN 0 ELSE 1

FinallySkippedOnExit(how) == how = "fallthrough"

\* try/finally: the finally block runs however the try block is left
RunsFinally(how) == TRUE

InitMain ==
  /\ session = None
  /\ stdio_transport = None
  /\ sessions = <<>>
  /\ serverTools \in Listings
  /\ server_config \in Configs
  /\ tasks = TasksOff
  /\ last = [op |-> "init", again |-> FALSE, pre |-> "unconnected", events |-> <<>>,
             outcome |-> "returned", arg |-> "", response |-> NoneValue,
             result |-> NoneValue]
  /\ \E l \in BOOLEAN, d \in DescribeArgs, c \in CallArgs, f \in ConfigFiles,
        h \in BOOLEAN :
       main = [pc |-> "start", list |-> l, describe |-> d, call |-> c,
               config |-> f, has_mcp |-> h, constructed |-> FALSE,
               how |-> "", status |-> -1, stderr |-> FALSE, stdout |-> "",
               events |-> <<>>, closes |-> 0]

\* the process ends on the way `how`
Exited(m, how, stderr, stdout) ==
  [m EXCEPT !.pc = "exited", !.how = how, !.status = ExitStatus(how),
            !.stderr = stderr, !.stdout = stdout]

\* lines 97-118: parse the arguments, load the configuration, check the
\* dependency, construct the executor
MainStart ==
  /\ main.pc = "start"
  /\ main' = IF main.config = "missing" THEN Exited(main, "no_config", TRUE, "")
             ELSE IF main.config = "unparsable" THEN Exited(main, "uncaught", TRUE, "")
             ELSE IF ~main.has_mcp THEN Exited(main, "no_mcp", TRUE, "")
             ELSE [main EXCEPT !.pc = "try", !.constructed = TRUE]
  /\ UNCHANGED <<session, stdio_transport, sessions, serverTools, last,
                 server_config, tasks>>

\* the try block left on the way `how`, control passing to the finally block
Leave(how, stderr, stdout, events) ==
  [main EXCEPT !.pc = "finally", !.how = how, !.stderr = stderr,
               !.stdout = stdout, !.events = events]

\* lines 120-156: the selected operation, its output, and the except clause
MainRun ==
  /\ main.pc = "try"
  /\ UNCHANGED tasks
  /\ \/ /\ Selected(main) = "list"
        /\ ListTools
        /\ main' = IF last'.outcome = "raised"
                   THEN Leave("except", TRUE, "", last'.events)
                   ELSE Leave("fallthrough", FALSE, "tools", last'.events)
     \/ /\ Selected(main) = "describe"
        /\ DescribeTool
        /\ last'.arg = main.describe
        /\ main' = IF last'.outcome = "raised"
                   THEN Leave("except", TRUE, "", last'.events)
                   ELSE IF last'.result = NoneValue
                   THEN Leave("not_found", TRUE, "", last'.events)
                   ELSE Leave("fallthrough", FALSE, "schema", last'.events)
     \/ /\ Selected(main) = "call"
        /\ ParseCall(main.call).ok
        /\ CallTool
        /\ last'.arg = ParseCall(main.call).tool
        /\ main' = IF last'.outcome = "raised"
                   THEN Leave("except", TRUE, "", last'.events)
                   ELSE Leave("fallthrough", FALSE, "result", last'.events)
     \/ /\ Selected(main) = "call"
        /\ ~ParseCall(main.call).ok
        /\ main' = Leave("except", TRUE, "", <<>>)
        /\ UNCHANGED <<session, stdio_transport, sessions, serverTools, last,
                       server_config>>
     \/ /\ Selected(main) = "none"
        /\ main' = Leave("fallthrough", FALSE, "usage", <<>>)
        /\ UNCHANGED <<session, stdio_transport, sessions, serverTools, last,
                       server_config>>

\* lines 157-158: await executor.close(), then the process ends
MainFinally ==
  /\ main.pc = "finally"
  /\ UNCHANGED tasks
  /\ IF RunsFinally(main.how)
     THEN /\ Close
          /\ main' = [main EXCEPT !.pc = "exited", !.status = ExitStatus(main.how),
                                  !.closes = main.closes + 1]
     ELSE /\ main' = [main EXCEPT !.pc = "exited", !.status = ExitStatus(main.how)]
          /\ UNCHANGED <<session, stdio_transport, sessions, serverTools, last,
                         server_config>>

NextMain == MainStart \/ MainRun \/ MainFinally

SpecMain == InitMain /\ [][NextMain]_vars

\* ---- properties of main() ----
\* no selector on the command line
NoSelector == ~main.list /\ main.describe = ArgNone /\ main.call = ArgNone

\* a library call of the selected operation raised, or --call could not be decoded
RaisedInOperation ==
  \/ \E i \in DOMAIN main.events : ~main.events[i].ok
  \/ Selected(main) = "call" /\ ~ParseCall(main.call).ok

\* --describe names a tool that the listing does not hold
DescribedToolMissing ==
  /\ Selected(main) = "describe"
  /\ ~RaisedInOperation
  /\ \A i \in DOMAIN serverTools : serverTools[i].name # main.describe

\* C13: main ends with status 1 and a message on the diagnostic stream when
\* the configuration file is missing, when the mcp package is missing, when
\* --describe names a tool that is not listed, and when list, describe or
\* call raised; a list, describe or call that succeeded ends with status 0.
C13_ExitStatus ==
  main.pc = "exited" =>
    /\ (main.config = "missing" \/ ~main.has_mcp) =>
         (main.status = 1 /\ main.stderr)
    /\ (main.constructed /\ (DescribedToolMissing \/ RaisedInOperation)) =>
         (main.status = 1 /\ main.stderr)
    /\ (main.constructed /\ Selected(main) # "none" /\ ~DescribedToolMissing /\
        ~RaisedInOperation) => main.status = 0

C13_Witness ==
  /\ main.pc = "exited"
  /\ main.constructed
  /\ Selected(main) = "call"
  /\ \E i \in DOMAIN main.events : main.events[i].ev = "call_tool" /\ ~main.events[i].ok
  /\ main.status = 1
  /\ main.stderr

\* C14 as stated: whenever no selector is given, main prints usage, spawns
\* nothing, sends nothing and ends with status 0.
C14_NoSelectorPrintsUsage ==
  (main.pc = "exited" /\ NoSelector) =>
    /\ main.stdout = "usage"
    /\ main.status = 0
    /\ main.events = <<>>
    /\ sessions = <<>>

\* C14 amended: when no selector is given and the configuration file was
\* loaded and the mcp package is present, main prints usage, spawns nothing,
\* sends nothing and ends with status 0.
C14_NoSelectorPrintsUsageWhenConfigured ==
  (main.pc = "exited" /\ NoSelector /\ main.config = "ok" /\ main.has_mcp) =>
    /\ main.stdout = "usage"
    /\ main.status = 0
    /\ ~main.stderr
    /\ main.events = <<>>
    /\ sessions = <<>>

C14_Witness ==
  /\ main.pc = "exited"
  /\ NoSelector
  /\ main.config = "ok"
  /\ main.has_mcp
  /\ main.stdout = "usage"
  /\ main.status = 0

\* C15: once the executor is constructed, close() has been invoked exactly
\* once when the process ends, however the try block was left; it is not
\* invoked before the finally block and never without an executor.
C15_CloseExactlyOnce ==
  /\ (main.pc = "exited" /\ main.constructed) => main.closes = 1
  /\ main.pc \in {"start", "try", "finally"} => main.closes = 0
  /\ ~main.constructed => main.closes = 0

C15_Witness ==
  /\ main.pc = "exited"
  /\ main.constructed
  /\ main.how = "not_found"
  /\ last.op = "close"
  /\ main.closes = 1

\* ---- operations of several asyncio tasks interleaving at their awaits ----

NumTasks == 2

Tasks == 1..NumTasks

\* a task is idle, suspended at one of the awaits of lines 43, 48, 55/69/84,
\* or done
TaskIdle ==
  [pc |-> "idle", op |-> "", seen |-> None, during |-> {}, conn |-> None,
   sid |-> None, sentReady |-> FALSE, outcome |-> ""]

InitConc ==
  /\ session = None
  /\ stdio_transport = None
  /\ sessions = <<>>
  /\ serverTools = <<>>
  /\ server_config \in Configs
  /\ main = MainOff
  /\ last = [op |-> "init", again |-> FALSE, pre |-> "unconnected", events |-> <<>>,
             outcome |-> "returned", arg |-> "", response |-> NoneValue,
             result |-> NoneValue]
  /\ tasks = [t \in Tasks |-> TaskIdle]

\* the task sends its request on whatever self.session is now and suspends
SendRequest(task, ss) ==
  [task EXCEPT !.pc = "request", !.sid = session',
               !.sentReady = ss[session'].initialized /\ ~ss[session'].closed]

\* a task calls list_tools, describe_tool or call_tool and runs to its first
\* await: the spawn inside connect() when no session is set, else the request
TaskStart(t) ==
  /\ tasks[t].pc = "idle"
  /\ \E op \in Operations :
       LET me == [tasks[t] EXCEPT !.op = op, !.seen = session,
                    !.during = {u \in Tasks \ {t} : tasks[u].pc = "spawn"}] IN
       /\ UNCHANGED <<session, stdio_transport, sessions>>
       /\ tasks' = [tasks EXCEPT ![t] =
                      IF NeedsConnect(session)
                      THEN [me EXCEPT !.pc = "spawn"]
                      ELSE SendRequest(me, sessions)]
  /\ UNCHANGED <<serverTools, server_config, last, main>>

\* line 43 resumes: the spawn raised, or lines 44-48 run up to the await of
\* initialize
TaskSpawnReturn(t) ==
  /\ tasks[t].pc = "spawn"
  /\ \E spawnOk \in (IF CanSpawn THEN BOOLEAN ELSE {FALSE}) :
       IF spawnOk
       THEN LET sid == Len(sessions) + 1 IN
            /\ stdio_transport' = sid
            /\ session' = sid
            /\ sessions' = Append(sessions, [initialized |-> FALSE, closed |-> FALSE])
            /\ tasks' = [tasks EXCEPT ![t].pc = "initialize", ![t].conn = sid]
       ELSE /\ UNCHANGED <<session, stdio_transport, sessions>>
            /\ tasks' = [tasks EXCEPT ![t].pc = "done", ![t].outcome = "raised"]
  /\ UNCHANGED <<serverTools, server_config, last, main>>

\* line 48 resumes: initialize raised, or connect() returns and the request
\* is sent on self.session
TaskInitReturn(t) ==
  /\ tasks[t].pc = "initialize"
  /\ \E initOk \in BOOLEAN :
       /\ UNCHANGED <<session, stdio_transport>>
       /\ sessions' = [sessions EXCEPT ![tasks[t].conn].initialized = initOk]
       /\ tasks' = [tasks EXCEPT ![t] =
                      IF initOk
                      THEN SendRequest(tasks[t], sessions')
                      ELSE [tasks[t] EXCEPT !.pc = "done", !.outcome = "raised"]]
  /\ UNCHANGED <<serverTools, server_config, last, main>>

\* the request returns or raises and the operation ends
TaskRequestReturn(t) ==
  /\ tasks[t].pc = "request"
  /\ \E reqOk \in BOOLEAN :
       tasks' = [tasks EXCEPT ![t].pc = "done",
                              ![t].outcome = IF reqOk THEN "returned" ELSE "raised"]
  /\ UNCHANGED <<session, stdio_transport, sessions, serverTools, server_config,
                 last, main>>

NextConc ==
  \E t \in Tasks :
    \/ TaskStart(t)
    \/ TaskSpawnReturn(t)
    \/ TaskInitReturn(t)
    \/ TaskRequestReturn(t)

SpecConc == InitConc /\ [][NextConc]_vars

\* tasks whose handshake (spawn, then initialize) is in flight
InFlight == {t \in Tasks : tasks[t].pc \in {"spawn", "initialize"}}

\* C17 as stated: at most one handshake attempt is in flight at any time.
C17_OneHandshakeInFlight == Cardinality(InFlight) <= 1

\* C17 amended: two handshake attempts are in flight together only when one
\* of the two operations was started while the other was awaiting its spawn
\* (self.session not yet assigned); a handshake is started only by an
\* operation that found no session set.
C17_SecondHandshakeOnlyDuringSpawn ==
  /\ \A t \in InFlight : tasks[t].seen = None
  /\ \A t \in InFlight : \A u \in InFlight \ {t} :
       u \in tasks[t].during \/ t \in tasks[u].during

C17_Witness ==
  /\ tasks[1].pc = "initialize"
  /\ tasks[2].pc = "request"
  /\ tasks[2].seen = 1
  /\ Cardinality(InFlight) = 1

\* C18: a request is sent on a session only once its handshake has completed
\* (the session is Ready when the request is sent).
C18_RequestWaitsForHandshake ==
  \A t \in Tasks : tasks[t].pc = "request" => tasks[t].sentReady

====
